---- MODULE Spec2Model ----
(***************************************************************************)
(* Model of src/src/oura_client.py: the OAuth token refresher              *)
(* (refresh_access_token), the secret-store push (update_github_secret)    *)
(* and the resilient fetcher (make_api_request).                           *)
(*                                                                         *)
(* The process environment (os.environ) is the credential set.  Every      *)
(* blocking HTTP call is a point where a caller waits: an action runs the  *)
(* code from one HTTP response to the next HTTP request (or to the return  *)
(* or raise that ends the call).  The answers of the token endpoint, the   *)
(* data endpoint and the secret store are inputs.                          *)
(*                                                                         *)
(* Spec vocabulary -> code: get() = make_api_request(endpoint) with the    *)
(* default auto_refresh=True; refresh() = refresh_access_token();          *)
(* ConfigurationError = ValueError; ApiRequestError = the HTTPError of     *)
(* response.raise_for_status(); MalformedResponseError = the decode error  *)
(* of response.json().                                                     *)
(***************************************************************************)
EXTENDS Integers, Sequences, FiniteSets, TLC

VARIABLES env, secrets, issued, calls, proc, cur, prev, rf, win,
          files, wr, run, disk, org

vars == <<env, secrets, issued, calls, proc, cur, prev, rf, win,
          files, wr, run, disk, org>>

\* ---------------------------------------------------------------- bounds
\* calls of make_api_request / refresh_access_token in one run
MaxCalls == 2

\* calls of the file writers on one data directory
MaxSaves == 2

\* files in the data/ root when the organizer starts
MaxFiles == 3

\* calls of organize_files on one data directory
MaxOrganize == 2

\* callers; Spec runs caller 1 only (single-threaded, spec section 5)
Procs == {1, 2}

\* ------------------------------------------------------ values and inputs
\* os.getenv(name) of a variable that is not set (None)
Unset == 0
\* the empty string
EmptyStr == -1
\* a response body that is not valid JSON
NotJson == 0

EnvNames == {"OURA_CLIENT_ID", "OURA_CLIENT_SECRET", "OURA_ACCESS_TOKEN",
             "OURA_REFRESH_TOKEN", "REPO_SECRETS_TOKEN", "GITHUB_REPOSITORY"}

SecretNames == {"OURA_ACCESS_TOKEN", "OURA_REFRESH_TOKEN"}

\* the value of an environment variable that is configured; the tokens the
\* token endpoint issues later are 2, 3, ...
Configured == 1

\* statuses the data endpoint answers with
DataStatuses == {200, 204, 401, 404, 500}
\* statuses the token endpoint answers with
TokenStatuses == {200, 201, 400, 401, 500}
\* bodies of a token response below 400
TokenBodies == {"NotJson", "NoAccessToken", "AccessOnly", "AccessAndRefresh"}

\* Python truthiness of an environment value: None and '' are falsy
Truthy(v) == v > 0

\* os.getenv(name, '')
getenv_default(e, name) == IF e[name] = Unset THEN EmptyStr ELSE e[name]

\* github_repository.split('/') unpacked into (repo_owner, repo_name):
\* a GITHUB_REPOSITORY value is modelled by its number of '/'-separated parts
split_unpacks(repo) == repo = 2

NoResult == [kind |-> "none", val |-> 0, msg |-> ""]

\* number of occurrences of x in the sequence s
Count(s, x) == Cardinality({i \in DOMAIN s : s[i] = x})

\* what is recorded of one call of make_api_request or refresh_access_token:
\* the environment at entry, the requests and refresher calls in order (log),
\* the bearer tokens sent, the statuses and bodies received, the tokens
\* refresh_access_token returned, the secrets pushed, the result
NewCall(op, auto, e) ==
  [op |-> op, auto |-> auto, log |-> <<>>,
   bearers |-> <<>>, statuses |-> <<>>, bodies |-> <<>>, tokens |-> <<>>,
   pushes |-> <<>>, entry |-> e, result |-> NoResult]

\* what is recorded of the latest call of refresh_access_token
NewRefresh(e, s, n) ==
  [state |-> "none", call |-> n, entry |-> e, stored |-> s, status |-> 0,
   body |-> "none", access |-> 0, refresh |-> 0, log |-> <<>>,
   pushes |-> <<>>, failed |-> <<>>, kind |-> "none"]

NewProc ==
  [pc |-> "idle", ret |-> "none", auto |-> FALSE, bearer |-> 0,
   new_access_token |-> 0, new_refresh_token |-> 0, secret_name |-> "none"]

World ==
  [env |-> env, secrets |-> secrets, issued |-> issued, calls |-> calls,
   proc |-> proc, cur |-> cur, prev |-> prev, rf |-> rf, win |-> win,
   files |-> files, wr |-> wr, run |-> run, disk |-> disk, org |-> org]

Apply(w) ==
  /\ env' = w.env
  /\ secrets' = w.secrets
  /\ issued' = w.issued
  /\ calls' = w.calls
  /\ proc' = w.proc
  /\ cur' = w.cur
  /\ prev' = w.prev
  /\ rf' = w.rf
  /\ win' = w.win
  /\ files' = w.files
  /\ wr' = w.wr
  /\ run' = w.run
  /\ disk' = w.disk
  /\ org' = w.org

\* ------------------------------------------------------------- the code
\* an exception that nothing catches ends the call of caller p
Raise(w, p, kind, val, msg) ==
  [w EXCEPT !.proc[p].pc = "done",
            !.cur[p].result = [kind |-> kind, val |-> val, msg |-> msg]]

\* an exception raised inside refresh_access_token as if make_api_request
\* caught it after a 401 and sent the GET again with the token it had
RaiseInRefresh_then_retries(w, p, kind, val, msg) ==
  LET w1 == [w EXCEPT !.rf[p].state = "raised", !.rf[p].kind = kind,
                      !.cur[p].log = Append(@, "refresh_raised")]
  IN IF w.proc[p].ret = "retry"
       THEN [w1 EXCEPT !.proc[p].pc = "get2",
                       !.cur[p].log = Append(@, "get"),
                       !.cur[p].bearers = Append(@, w.proc[p].bearer)]
       ELSE Raise(w1, p, kind, val, msg)

\* an exception raised inside refresh_access_token: neither it nor
\* make_api_request catches it
RaiseInRefresh(w, p, kind, val, msg) ==
  Raise([w EXCEPT !.rf[p].state = "raised", !.rf[p].kind = kind,
                  !.cur[p].log = Append(@, "refresh_raised")],
        p, kind, val, msg)

\* raise_for_status as if only server errors raised
raises_for_status_5xx_only(status) == status >= 500 /\ status < 600

\* response.raise_for_status(): HTTPError for 4xx and 5xx
raises_for_status(status) == status >= 400 /\ status < 600

\* requests.get(url, headers) of make_api_request is sent
send_get(w, p, token, next) ==
  [w EXCEPT !.proc[p].bearer = token,
            !.proc[p].pc = next,
            !.cur[p].log = Append(@, "get"),
            !.cur[p].bearers = Append(@, token)]

\* refresh_access_token as if the client credentials were not validated
refresh_entry_unchecked_client(w, p, retTo) ==
  LET w1 == [w EXCEPT !.cur[p].log = Append(@, "refresh"),
                      !.rf[p] = [NewRefresh(w.env, w.secrets, w.calls)
                                   EXCEPT !.state = "running"],
                      !.proc[p].ret = retTo,
                      !.proc[p].new_access_token = 0,
                      !.proc[p].new_refresh_token = 0]
  IN IF ~Truthy(w.env["OURA_REFRESH_TOKEN"])
       THEN RaiseInRefresh(w1, p, "ValueError", 0, "OURA_REFRESH_TOKEN")
     ELSE [w1 EXCEPT !.proc[p].pc = "post",
                     !.cur[p].log = Append(@, "post"),
                     !.rf[p].log = Append(@, "post")]

\* refresh_access_token, lines 44-68: read the credentials, validate them,
\* send the POST
refresh_entry(w, p, retTo) ==
  LET w1 == [w EXCEPT !.cur[p].log = Append(@, "refresh"),
                      !.rf[p] = [NewRefresh(w.env, w.secrets, w.calls)
                                   EXCEPT !.state = "running"],
                      !.proc[p].ret = retTo,
                      !.proc[p].new_access_token = 0,
                      !.proc[p].new_refresh_token = 0]
  IN IF ~Truthy(w.env["OURA_REFRESH_TOKEN"])
       THEN RaiseInRefresh(w1, p, "ValueError", 0, "OURA_REFRESH_TOKEN")
     ELSE IF ~Truthy(w.env["OURA_CLIENT_ID"])
       THEN RaiseInRefresh(w1, p, "ValueError", 0, "OURA_CLIENT_ID")
     ELSE IF ~Truthy(w.env["OURA_CLIENT_SECRET"])
       THEN RaiseInRefresh(w1, p, "ValueError", 0, "OURA_CLIENT_SECRET")
     ELSE [w1 EXCEPT !.proc[p].pc = "post",
                     !.cur[p].log = Append(@, "post"),
                     !.rf[p].log = Append(@, "post")]

\* refresh_access_token, lines 133-134, and the caller's continuation:
\* make_api_request lines 147-150 (eager) or 156-158 (retry)
refresh_return(w, p) ==
  LET tok == w.proc[p].new_access_token
      w1 == [w EXCEPT !.rf[p].state = "returned",
                      !.cur[p].log = Append(@, "refresh_returned"),
                      !.cur[p].tokens = Append(@, tok)]
  IN CASE w.proc[p].ret = "eager" ->
            send_get([w1 EXCEPT !.env["OURA_ACCESS_TOKEN"] = tok], p, tok, "get1")
       [] w.proc[p].ret = "retry" ->
            send_get([w1 EXCEPT !.env["OURA_ACCESS_TOKEN"] = tok], p, tok, "get2")
       [] OTHER ->
            [w1 EXCEPT !.proc[p].pc = "done",
                       !.cur[p].result = [kind |-> "ok", val |-> tok, msg |-> ""]]

\* update_github_secret, lines 9-19: the call is made and the public-key GET sent
update_github_secret(w, p, name) ==
  [w EXCEPT !.proc[p].pc = "key",
            !.proc[p].secret_name = name,
            !.cur[p].log = Append(@, "key"),
            !.rf[p].log = Append(@, "key"),
            !.rf[p].pushes = Append(@, name),
            !.cur[p].pushes = Append(@, name)]

\* the secret-store push as if no try/except surrounded it
push_failed_raises(w, p) ==
  RaiseInRefresh([w EXCEPT !.rf[p].failed = Append(@, w.proc[p].secret_name)],
                 p, "HTTPError", 0, "secret store")

\* the except clause of line 129: log and carry on
push_failed(w, p) ==
  refresh_return([w EXCEPT !.rf[p].failed = Append(@, w.proc[p].secret_name)], p)

\* refresh_access_token, lines 108-131, up to the first secret-store request
push_secrets(w, p) ==
  IF Truthy(w.env["REPO_SECRETS_TOKEN"])
    THEN IF Truthy(w.env["GITHUB_REPOSITORY"])
           THEN IF split_unpacks(w.env["GITHUB_REPOSITORY"])
                  THEN update_github_secret(w, p, "OURA_ACCESS_TOKEN")
                  ELSE refresh_return(w, p)
           ELSE refresh_return(w, p)
    ELSE refresh_return(w, p)

\* refresh_access_token as if the secrets were pushed on every refresh,
\* rotated or not
store_tokens_always_pushes(w, p, body) ==
  LET a == w.issued + 1
      w2 == [w EXCEPT !.rf[p].body = body,
                      !.rf[p].access = a,
                      !.proc[p].new_access_token = a,
                      !.env["OURA_ACCESS_TOKEN"] = a,
                      !.issued = a]
  IN IF body = "AccessAndRefresh"
       THEN LET r == a + 1
            IN push_secrets([w2 EXCEPT !.rf[p].refresh = r,
                                       !.proc[p].new_refresh_token = r,
                                       !.env["OURA_REFRESH_TOKEN"] = r,
                                       !.issued = r], p)
       ELSE push_secrets(w2, p)

\* refresh_access_token, lines 104-131: the tokens of the response are put
\* into the environment; a rotated refresh_token is also pushed to the store
store_tokens(w, p, body) ==
  LET a == w.issued + 1
      w2 == [w EXCEPT !.rf[p].body = body,
                      !.rf[p].access = a,
                      !.proc[p].new_access_token = a,
                      !.env["OURA_ACCESS_TOKEN"] = a,
                      !.issued = a]
  IN IF body = "AccessAndRefresh"
       THEN LET r == a + 1
            IN push_secrets([w2 EXCEPT !.rf[p].refresh = r,
                                       !.proc[p].new_refresh_token = r,
                                       !.env["OURA_REFRESH_TOKEN"] = r,
                                       !.issued = r], p)
       ELSE refresh_return(w2, p)

\* refresh_access_token as if the 401 branch of lines 91-98 were missing
post_returns_no_401_branch(w, p, status, body) ==
  LET w1 == [w EXCEPT !.rf[p].status = status]
  IN IF raises_for_status(status)
       THEN IF status = 400
              THEN RaiseInRefresh(w1, p, "RuntimeError", status, "400 Bad Request")
            ELSE RaiseInRefresh(w1, p, "RuntimeError", status, "status")
     ELSE IF body = "NotJson"
       THEN RaiseInRefresh(w1, p, "JSONDecodeError", status, "")
     ELSE IF body = "NoAccessToken"
       THEN RaiseInRefresh(w1, p, "KeyError", status, "access_token")
     ELSE store_tokens(w1, p, body)

\* refresh_access_token as if line 81 tested `!= 401` instead of `== 400`
post_returns_others_as_400(w, p, status, body) ==
  LET w1 == [w EXCEPT !.rf[p].status = status]
  IN IF raises_for_status(status)
       THEN IF status # 401
              THEN RaiseInRefresh(w1, p, "RuntimeError", status, "400 Bad Request")
            ELSE RaiseInRefresh(w1, p, "RuntimeError", status, "401 Unauthorized")
     ELSE IF body = "NotJson"
       THEN RaiseInRefresh(w1, p, "JSONDecodeError", status, "")
     ELSE IF body = "NoAccessToken"
       THEN RaiseInRefresh(w1, p, "KeyError", status, "access_token")
     ELSE store_tokens(w1, p, body)

\* refresh_access_token as if the access token of the response were put into
\* the environment before raise_for_status
post_returns_stores_before_check(w, p, status, body) ==
  LET w1 == [w EXCEPT !.rf[p].status = status]
      w2 == IF body \in {"AccessOnly", "AccessAndRefresh"}
              THEN [w1 EXCEPT !.env["OURA_ACCESS_TOKEN"] = w.issued + 1]
              ELSE w1
  IN IF raises_for_status(status)
       THEN RaiseInRefresh(w2, p, "RuntimeError", status, "status")
     ELSE IF body = "NotJson"
       THEN RaiseInRefresh(w1, p, "JSONDecodeError", status, "")
     ELSE IF body = "NoAccessToken"
       THEN RaiseInRefresh(w1, p, "KeyError", status, "access_token")
     ELSE store_tokens(w1, p, body)

\* refresh_access_token, lines 67-105: the token endpoint's answer
post_returns(w, p, status, body) ==
  LET w1 == [w EXCEPT !.rf[p].status = status]
  IN IF raises_for_status(status)
       THEN IF status = 400
              THEN RaiseInRefresh(w1, p, "RuntimeError", status, "400 Bad Request")
            ELSE IF status = 401
              THEN RaiseInRefresh(w1, p, "RuntimeError", status, "401 Unauthorized")
            ELSE RaiseInRefresh(w1, p, "RuntimeError", status, "status")
     ELSE IF body = "NotJson"
       THEN RaiseInRefresh(w1, p, "JSONDecodeError", status, "")
     ELSE IF body = "NoAccessToken"
       THEN RaiseInRefresh(w1, p, "KeyError", status, "access_token")
     ELSE store_tokens(w1, p, body)

\* update_github_secret, lines 19-39: the public key's answer
key_returns(w, p, ok) ==
  IF ok THEN [w EXCEPT !.proc[p].pc = "put",
                       !.cur[p].log = Append(@, "put"),
                       !.rf[p].log = Append(@, "put")]
        ELSE push_failed(w, p)

\* refresh_access_token as if line 124 (the push of OURA_REFRESH_TOKEN) were
\* missing
put_returns_skips_refresh_token(w, p, ok) ==
  IF ~ok THEN push_failed(w, p)
  ELSE refresh_return(
         [w EXCEPT !.secrets["OURA_ACCESS_TOKEN"] = w.proc[p].new_access_token],
         p)

\* refresh_access_token as if each push had its own try/except, so that a
\* failed push of OURA_ACCESS_TOKEN were followed by the push of
\* OURA_REFRESH_TOKEN
put_returns_pushes_after_failure(w, p, ok) ==
  IF w.proc[p].secret_name = "OURA_ACCESS_TOKEN"
    THEN update_github_secret(
           IF ok THEN [w EXCEPT !.secrets["OURA_ACCESS_TOKEN"] =
                                  w.proc[p].new_access_token]
                 ELSE [w EXCEPT !.rf[p].failed = Append(@, "OURA_ACCESS_TOKEN")],
           p, "OURA_REFRESH_TOKEN")
  ELSE IF ~ok THEN push_failed(w, p)
  ELSE refresh_return(
         [w EXCEPT !.secrets["OURA_REFRESH_TOKEN"] = w.proc[p].new_refresh_token],
         p)

\* update_github_secret, lines 39-42, and refresh_access_token lines 124-131
put_returns(w, p, ok) ==
  IF ~ok THEN push_failed(w, p)
  ELSE IF w.proc[p].secret_name = "OURA_ACCESS_TOKEN"
    THEN update_github_secret(
           [w EXCEPT !.secrets["OURA_ACCESS_TOKEN"] = w.proc[p].new_access_token],
           p, "OURA_REFRESH_TOKEN")
    ELSE refresh_return(
           [w EXCEPT !.secrets["OURA_REFRESH_TOKEN"] = w.proc[p].new_refresh_token],
           p)

\* make_api_request, lines 160-161
finish(w, p, status, body) ==
  IF raises_for_status(status)
    THEN Raise(w, p, "HTTPError", status, "")
  ELSE IF body = NotJson
    THEN Raise(w, p, "JSONDecodeError", status, "")
  ELSE [w EXCEPT !.proc[p].pc = "done",
                 !.cur[p].result = [kind |-> "ok", val |-> body, msg |-> ""]]

\* make_api_request as if the refresh-and-retry were repeated once more
get_returns_retries_twice(w, p, status, body) ==
  LET w1 == [w EXCEPT !.cur[p].statuses = Append(@, status),
                      !.cur[p].bodies = Append(@, body)]
  IN IF Count(w.cur[p].log, "get") <= 2 /\ status = 401 /\ w.proc[p].auto
       THEN refresh_entry(w1, p, "retry")
       ELSE finish(w1, p, status, body)

\* make_api_request as if line 152 did not test the status
get_returns_ignores_status(w, p, status, body) ==
  LET w1 == [w EXCEPT !.cur[p].statuses = Append(@, status),
                      !.cur[p].bodies = Append(@, body)]
  IN IF w.proc[p].pc = "get1" /\ w.proc[p].auto
       THEN refresh_entry(w1, p, "retry")
       ELSE finish(w1, p, status, body)

\* make_api_request as if line 152 did not test auto_refresh
get_returns_ignores_auto_refresh(w, p, status, body) ==
  LET w1 == [w EXCEPT !.cur[p].statuses = Append(@, status),
                      !.cur[p].bodies = Append(@, body)]
  IN IF w.proc[p].pc = "get1" /\ status = 401
       THEN refresh_entry(w1, p, "retry")
       ELSE finish(w1, p, status, body)

\* make_api_request, lines 150-161: the data endpoint's answer
get_returns(w, p, status, body) ==
  LET w1 == [w EXCEPT !.cur[p].statuses = Append(@, status),
                      !.cur[p].bodies = Append(@, body)]
  IN IF w.proc[p].pc = "get1" /\ status = 401 /\ w.proc[p].auto
       THEN refresh_entry(w1, p, "retry")
       ELSE finish(w1, p, status, body)

\* make_api_request as if line 144 did not test the access token
make_api_request_entry_always_refreshes(w, p, auto_refresh) ==
  LET w1 == [w EXCEPT !.calls = @ + 1,
                      !.prev[p] = w.cur[p],
                      !.cur[p] = NewCall("make_api_request", auto_refresh, w.env),
                      !.proc[p] = [NewProc EXCEPT !.auto = auto_refresh]]
      access_token == getenv_default(w.env, "OURA_ACCESS_TOKEN")
  IN IF auto_refresh
       THEN refresh_entry(w1, p, "eager")
       ELSE send_get(w1, p, access_token, "get1")

\* make_api_request as if lines 144-147 (the eager refresh) were missing
make_api_request_entry_no_eager(w, p, auto_refresh) ==
  LET w1 == [w EXCEPT !.calls = @ + 1,
                      !.prev[p] = w.cur[p],
                      !.cur[p] = NewCall("make_api_request", auto_refresh, w.env),
                      !.proc[p] = [NewProc EXCEPT !.auto = auto_refresh]]
      access_token == getenv_default(w.env, "OURA_ACCESS_TOKEN")
  IN send_get(w1, p, access_token, "get1")

\* make_api_request as if the access token were read once, before the
\* previous call, instead of from the environment at each call
make_api_request_entry_stale_token(w, p, auto_refresh) ==
  LET w1 == [w EXCEPT !.calls = @ + 1,
                      !.prev[p] = w.cur[p],
                      !.cur[p] = NewCall("make_api_request", auto_refresh, w.env),
                      !.proc[p] = [NewProc EXCEPT !.auto = auto_refresh]]
      access_token == getenv_default(w.cur[p].entry, "OURA_ACCESS_TOKEN")
  IN IF ~Truthy(access_token) /\ auto_refresh
       THEN refresh_entry(w1, p, "eager")
       ELSE send_get(w1, p, access_token, "get1")

\* make_api_request, lines 136-150
make_api_request_entry(w, p, auto_refresh) ==
  LET w1 == [w EXCEPT !.calls = @ + 1,
                      !.prev[p] = w.cur[p],
                      !.cur[p] = NewCall("make_api_request", auto_refresh, w.env),
                      !.proc[p] = [NewProc EXCEPT !.auto = auto_refresh]]
      access_token == getenv_default(w.env, "OURA_ACCESS_TOKEN")
  IN IF ~Truthy(access_token) /\ auto_refresh
       THEN refresh_entry(w1, p, "eager")
       ELSE send_get(w1, p, access_token, "get1")

\* a direct call of refresh_access_token()
refresh_access_token_entry(w, p) ==
  refresh_entry([w EXCEPT !.calls = @ + 1,
                          !.prev[p] = w.cur[p],
                          !.cur[p] = NewCall("refresh_access_token", FALSE, w.env),
                          !.proc[p] = NewProc], p, "top")

\* ------------------------------- the debug variant (example/debug-oura.py)
\* a None result: refresh_access_token or make_api_request returns None
ReturnNone(w, p) ==
  [w EXCEPT !.proc[p].pc = "done",
            !.cur[p].result = [kind |-> "None", val |-> 0, msg |-> ""]]

\* refresh_access_token returns None (lines 23, 43, 46) and make_api_request,
\* its only caller, returns None in turn (lines 63-67)
debug_refresh_none(w, p) ==
  ReturnNone([w EXCEPT !.rf[p].state = "returned None", !.rf[p].kind = "None",
                       !.cur[p].log = Append(@, "refresh_none")], p)

\* refresh_access_token, lines 15-34: the credentials, then the POST
debug_refresh_entry(w, p) ==
  LET w1 == [w EXCEPT !.cur[p].log = Append(@, "refresh"),
                      !.rf[p] = [NewRefresh(w.env, w.secrets, w.calls)
                                   EXCEPT !.state = "running"],
                      !.proc[p].ret = "retry",
                      !.proc[p].new_access_token = 0,
                      !.proc[p].new_refresh_token = 0]
  IN IF \E n \in {"OURA_CLIENT_ID", "OURA_CLIENT_SECRET", "OURA_REFRESH_TOKEN"} :
          ~Truthy(w.env[n])
       THEN debug_refresh_none(w1, p)
       ELSE [w1 EXCEPT !.proc[p].pc = "debug_post",
                       !.cur[p].log = Append(@, "post"),
                       !.rf[p].log = Append(@, "post")]

\* refresh_access_token, lines 34-46, and make_api_request lines 62-65: only
\* a 200 is read; the access token goes to the environment, a refresh_token
\* of the response is dropped; the GET is sent again with the new token
debug_post_returns(w, p, status, body) ==
  LET w1 == [w EXCEPT !.rf[p].status = status]
      a == w.issued + 1
  IN IF status # 200 THEN debug_refresh_none(w1, p)
     ELSE IF body \in {"NotJson", "NoAccessToken"} THEN debug_refresh_none(w1, p)
     ELSE send_get(
            [w1 EXCEPT !.rf[p].body = body,
                       !.rf[p].access = a,
                       !.rf[p].state = "returned",
                       !.proc[p].new_access_token = a,
                       !.env["OURA_ACCESS_TOKEN"] = a,
                       !.issued = IF body = "AccessAndRefresh" THEN a + 1 ELSE a,
                       !.cur[p].log = Append(@, "refresh_returned"),
                       !.cur[p].tokens = Append(@, a)],
            p, a, "debug_get2")

\* make_api_request, lines 57-77: the data endpoint's answer
debug_get_returns(w, p, status, body) ==
  LET w1 == [w EXCEPT !.cur[p].statuses = Append(@, status),
                      !.cur[p].bodies = Append(@, body)]
  IN IF w.proc[p].pc = "debug_get1" /\ status = 401
       THEN debug_refresh_entry(w1, p)
     ELSE IF status = 200 /\ body # NotJson
       THEN [w1 EXCEPT !.proc[p].pc = "done",
                       !.cur[p].result = [kind |-> "ok", val |-> body, msg |-> ""]]
     ELSE ReturnNone(w1, p)

\* make_api_request, lines 48-57: the token of the environment (None when it
\* is unset), the GET
debug_make_api_request_entry(w, p) ==
  send_get([w EXCEPT !.calls = @ + 1,
                     !.prev[p] = w.cur[p],
                     !.cur[p] = NewCall("debug make_api_request", TRUE, w.env),
                     !.proc[p] = [NewProc EXCEPT !.auto = TRUE]],
           p, w.env["OURA_ACCESS_TOKEN"], "debug_get1")

\* ---------------------------------------------------- the request window
\* date(y, m, d) as a day number (days since 1970-01-01, proleptic Gregorian)
days_from_civil(y, m, d) ==
  LET yy == IF m <= 2 THEN y - 1 ELSE y
      era == yy \div 400
      yoe == yy - era * 400
      mp == IF m > 2 THEN m - 3 ELSE m + 9
      doy == (153 * mp + 2) \div 5 + d - 1
      doe == yoe * 365 + yoe \div 4 - yoe \div 100 + doy
  IN era * 146097 + doe - 719468

\* str(date) of the f-string of line 171: the YYYY-MM-DD fields of a day number
isoformat(z) ==
  LET zz == z + 719468
      era == zz \div 146097
      doe == zz - era * 146097
      yoe == (doe - doe \div 1460 + doe \div 36524 - doe \div 146096) \div 365
      doy == doe - (365 * yoe + yoe \div 4 - yoe \div 100)
      mp == (5 * doy + 2) \div 153
      d == doy - (153 * mp + 2) \div 5 + 1
      m == IF mp < 10 THEN mp + 3 ELSE mp - 9
      y == yoe + era * 400
  IN <<IF m <= 2 THEN y + 1 ELSE y, m, d>>

\* the values of datetime.now().date() the model runs with
Todays ==
  {days_from_civil(2025, 10, 24), days_from_civil(2025, 12, 31),
   days_from_civil(2024, 2, 28)}

\* the values of the days argument
DaysArgs == {-1, 0, 1, 3, 10}

\* no get_recent_sleep_hrv call yet
NoWindow ==
  [call |-> 0, days |-> 0, today |-> 0,
   start_date |-> <<0, 0, 0>>, end_date |-> <<0, 0, 0>>]

\* get_recent_sleep_hrv, lines 163-172
get_recent_sleep_hrv_entry(w, p, days, today) ==
  LET end_date == today + 1
      start_date == end_date - days
  IN make_api_request_entry(
       [w EXCEPT !.win = [call |-> w.calls + 1, days |-> days, today |-> today,
                          start_date |-> isoformat(start_date),
                          end_date |-> isoformat(end_date)]],
       p, TRUE)

\* ------------------------------------- the file writers (data_processor.py)
\* a JSON value that may be null: <<>> is null (None), <<v>> is the value v
JsonNull == <<>>

\* line 19 and line 84: the value is not None and is > 0
valid_reading(x) == x # JsonNull /\ x[1] # 0 /\ x[1] > 0

\* extract_hrv_timeseries, lines 17-38: the entries of one night's items from
\* index i on (Python index i - 1)
RECURSIVE hrv_items(_, _, _)
hrv_items(hrv, i, hrv_entries) ==
  IF i > Len(hrv.items) THEN hrv_entries
  ELSE hrv_items(hrv, i + 1,
         IF valid_reading(hrv.items[i])
           THEN Append(hrv_entries,
                       [date |-> hrv.timestamp + (i - 1) * hrv.interval,
                        key |-> "hrv", value |-> hrv.items[i][1]])
           ELSE hrv_entries)

\* extract_hrv_timeseries, lines 6-40
RECURSIVE extract_hrv_timeseries(_)
extract_hrv_timeseries(nights) ==
  IF nights = <<>> THEN <<>>
  ELSE LET night == Head(nights)
       IN (IF night.hrv # JsonNull /\ night.hrv[1].items # <<>>
             THEN hrv_items(night.hrv[1], 1, <<>>)
             ELSE <<>>)
          \o extract_hrv_timeseries(Tail(nights))

\* extract_rhr_data, lines 76-101
RECURSIVE extract_rhr_data(_)
extract_rhr_data(nights) ==
  IF nights = <<>> THEN <<>>
  ELSE LET night == Head(nights)
       IN (IF valid_reading(night.lowest_heart_rate)
             THEN <<[date |-> night.day, key |-> "rhr",
                     value |-> night.lowest_heart_rate[1]]>>
             ELSE <<>>)
          \o extract_rhr_data(Tail(nights))

\* json.dump(entries, f): the text of a list of entries, one row per entry
json_dump(entries) ==
  [i \in DOMAIN entries |-> <<entries[i].date, entries[i].key, entries[i].value>>]

\* json.load(f): the entries of a text
json_load(text) ==
  [i \in DOMAIN text |-> [date |-> text[i][1], key |-> text[i][2], value |-> text[i][3]]]

\* open(filename, 'w') and json.dump: the directory fs with the file written
write_file(fs, filename, text) ==
  [n \in DOMAIN fs \cup {filename} |-> IF n = filename THEN text ELSE fs[n]]

\* the entries the writer of a metric extracts from one night
night_entries(metric, night) ==
  IF metric = "hrv" THEN extract_hrv_timeseries(<<night>>)
                    ELSE extract_rhr_data(<<night>>)

\* the loop of save_nightly_hrv_files (lines 47-72) and save_nightly_rhr_files
\* (lines 108-133) as if an existing file were always rewritten
RECURSIVE save_nights_always_writes(_, _, _)
save_nights_always_writes(st, nights, metric) ==
  IF nights = <<>> THEN st
  ELSE LET night == Head(nights)
           entries == night_entries(metric, night)
           filename == <<night.day, metric>>
           st1 == IF entries # <<>>
                    THEN [fs |-> write_file(st.fs, filename, json_dump(entries)),
                          files_created |-> Append(st.files_created, filename)]
                    ELSE st
       IN save_nights_always_writes(st1, Tail(nights), metric)

\* the loop of save_nightly_hrv_files (lines 47-72) and save_nightly_rhr_files
\* (lines 108-133) over the nights left; filename data/<day>_sleep-<metric>.json
\* is the pair <<day, metric>>
RECURSIVE save_nights(_, _, _)
save_nights(st, nights, metric) ==
  IF nights = <<>> THEN st
  ELSE LET night == Head(nights)
           entries == night_entries(metric, night)
           filename == <<night.day, metric>>
           st1 == IF entries # <<>>
                    THEN IF filename \in DOMAIN st.fs
                              /\ json_load(st.fs[filename]) = entries
                           THEN st
                           ELSE [fs |-> write_file(st.fs, filename, json_dump(entries)),
                                 files_created |-> Append(st.files_created, filename)]
                    ELSE st
       IN save_nights(st1, Tail(nights), metric)

\* save_nightly_hrv_files, lines 42-74
save_nightly_hrv_files(fs, sleep_data) ==
  save_nights([fs |-> fs, files_created |-> <<>>], sleep_data.data, "hrv")

\* save_nightly_rhr_files, lines 103-135
save_nightly_rhr_files(fs, sleep_data) ==
  save_nights([fs |-> fs, files_created |-> <<>>], sleep_data.data, "rhr")

\* save_all_sleep_metrics, lines 137-145
save_all_sleep_metrics(fs, sleep_data) ==
  LET hrv == save_nightly_hrv_files(fs, sleep_data)
      rhr == save_nightly_rhr_files(hrv.fs, sleep_data)
  IN [fs |-> rhr.fs, files_created |-> hrv.files_created \o rhr.files_created]

\* the writer named fn
save_by_name(fn, fs, sleep_data) ==
  CASE fn = "save_nightly_hrv_files" -> save_nightly_hrv_files(fs, sleep_data)
    [] fn = "save_nightly_rhr_files" -> save_nightly_rhr_files(fs, sleep_data)
    [] OTHER -> save_all_sleep_metrics(fs, sleep_data)

WriterNames ==
  {"save_nightly_hrv_files", "save_nightly_rhr_files", "save_all_sleep_metrics"}

\* sleep sessions of the provider's payload
Hrv(timestamp, items) ==
  <<[timestamp |-> timestamp, interval |-> 300, items |-> items]>>

NightA ==
  [day |-> "2025-10-23", lowest_heart_rate |-> <<48>>,
   hrv |-> Hrv(1000, << <<50>>, JsonNull, <<0>>, <<62>> >>)]

NightB ==
  [day |-> "2025-10-24", lowest_heart_rate |-> <<51>>,
   hrv |-> Hrv(90000, << <<45>> >>)]

\* a second session (a nap) on the day of NightB
NightB2 ==
  [day |-> "2025-10-24", lowest_heart_rate |-> <<55>>,
   hrv |-> Hrv(140000, << <<70>> >>)]

\* a night without readings
NightC ==
  [day |-> "2025-10-25", lowest_heart_rate |-> JsonNull, hrv |-> JsonNull]

\* a night whose readings are all filtered out
NightD ==
  [day |-> "2025-10-25", lowest_heart_rate |-> <<0>>,
   hrv |-> Hrv(180000, << <<0>>, JsonNull, <<-3>> >>)]

\* a night with HRV readings and no valid heart rate
NightE ==
  [day |-> "2025-10-26", lowest_heart_rate |-> <<-1>>,
   hrv |-> Hrv(260000, << JsonNull, <<38>> >>)]

Payloads ==
  { [data |-> nights] :
      nights \in {<<>>, <<NightA>>, <<NightB>>, <<NightB2>>, <<NightC>>,
                  <<NightA, NightB>>, <<NightB, NightB2>>, <<NightB, NightB>>,
                  <<NightD, NightA>>, <<NightE, NightC>>} }

\* an empty data directory
NoFiles == [n \in {} |-> <<>>]

\* no writer call yet
NoSave ==
  [n |-> 0, fn |-> "none", sleep_data |-> [data |-> <<>>],
   before |-> NoFiles, files_created |-> <<>>,
   prev_fn |-> "none", prev_sleep_data |-> [data |-> <<>>]]

\* one call of a writer on the data directory
save_call(w, fn, sleep_data) ==
  LET r == save_by_name(fn, w.files, sleep_data)
  IN [w EXCEPT !.files = r.fs,
               !.wr = [n |-> w.wr.n + 1, fn |-> fn, sleep_data |-> sleep_data,
                       before |-> w.files, files_created |-> r.files_created,
                       prev_fn |-> w.wr.fn, prev_sleep_data |-> w.wr.sleep_data]]

\* ------------------------------------------------------ the run (main.py)
\* main.py line 12
days_to_get == 10

\* main.py line 19
required_vars == {"OURA_CLIENT_ID", "OURA_CLIENT_SECRET", "OURA_REFRESH_TOKEN"}

\* no run of main yet
NoRun ==
  [state |-> "none", result |-> NoResult, entry |-> [n \in {} |-> 0],
   before |-> NoFiles, files_created |-> <<>>, sleep_data |-> [data |-> <<>>]]

\* main, lines 19-28, as if the refresh token were not among required_vars
main_entry_two_required(w, p, today) ==
  LET missing_vars == {var \in required_vars \ {"OURA_REFRESH_TOKEN"} :
                         ~Truthy(w.env[var])}
      r == [NoRun EXCEPT !.entry = w.env, !.before = w.files]
  IN IF missing_vars # {}
       THEN [w EXCEPT !.run = [r EXCEPT !.state = "done",
                                        !.result = [kind |-> "ValueError", val |-> 0,
                                                    msg |-> "Missing required"]]]
       ELSE get_recent_sleep_hrv_entry(
              [w EXCEPT !.run = [r EXCEPT !.state = "fetching"]], p, days_to_get, today)

\* main, lines 14-28: the required variables, then the fetch of the window
main_entry(w, p, today) ==
  LET missing_vars == {var \in required_vars : ~Truthy(w.env[var])}
      r == [NoRun EXCEPT !.entry = w.env, !.before = w.files]
  IN IF missing_vars # {}
       THEN [w EXCEPT !.run = [r EXCEPT !.state = "done",
                                        !.result = [kind |-> "ValueError", val |-> 0,
                                                    msg |-> "Missing required"]]]
       ELSE get_recent_sleep_hrv_entry(
              [w EXCEPT !.run = [r EXCEPT !.state = "fetching"]], p, days_to_get, today)

\* main, lines 28-50, as if the except clause did not re-raise
main_returns_swallows(w, p, sleep_data) ==
  LET fetched == w.cur[p].result
      saved == save_all_sleep_metrics(w.files, sleep_data)
  IN IF fetched.kind # "ok"
       THEN [w EXCEPT !.run.state = "done", !.run.result = [kind |-> "ok", val |-> 0, msg |-> ""]]
       ELSE IF sleep_data.data = <<>>
              THEN [w EXCEPT !.run.state = "done", !.run.result = [kind |-> "ok", val |-> 0, msg |-> ""],
                             !.run.sleep_data = sleep_data]
              ELSE [w EXCEPT !.run.state = "done", !.run.result = [kind |-> "ok", val |-> 0, msg |-> ""],
                             !.run.sleep_data = sleep_data,
                             !.run.files_created = saved.files_created,
                             !.files = saved.fs]

\* main, lines 28-50, once get_recent_sleep_hrv has returned or raised:
\* sleep_data is the decoded body of the response
main_returns(w, p, sleep_data) ==
  LET fetched == w.cur[p].result
      saved == save_all_sleep_metrics(w.files, sleep_data)
  IN IF fetched.kind # "ok"
       THEN [w EXCEPT !.run.state = "done", !.run.result = fetched]
       ELSE IF sleep_data.data = <<>>
              THEN [w EXCEPT !.run.state = "done", !.run.result = [kind |-> "ok", val |-> 0, msg |-> ""],
                             !.run.sleep_data = sleep_data]
              ELSE [w EXCEPT !.run.state = "done", !.run.result = [kind |-> "ok", val |-> 0, msg |-> ""],
                             !.run.sleep_data = sleep_data,
                             !.run.files_created = saved.files_created,
                             !.files = saved.fs]

\* ------------------------------------ the organizer (data_organizer.py)
\* A file name is a sequence of pieces ("2025", "-", "_", "sleep", ".json");
\* the separators "-" and "_" and the suffix ".json" occur only as pieces of
\* their own, so `in`, split and glob work on pieces as they do on characters.

\* sub in s (Python's substring test)
contains(s, sub) ==
  \E i \in 0..(Len(s) - Len(sub)) : SubSeq(s, i + 1, i + Len(sub)) = sub

\* s.split(sep)
RECURSIVE split(_, _)
split(s, sep) ==
  IF \A i \in DOMAIN s : s[i] # sep THEN <<s>>
  ELSE LET i == CHOOSE k \in DOMAIN s :
                  s[k] = sep /\ \A j \in 1..(k - 1) : s[j] # sep
       IN <<SubSeq(s, 1, i - 1)>> \o split(SubSeq(s, i + 1, Len(s)), sep)

\* data_dir.glob('*.json'), line 56: the files of the listing that match
glob_json(listing) ==
  SelectSeq(listing, LAMBDA f : f # <<>> /\ f[Len(f)] = ".json")

\* the folders target_folder.mkdir(parents=True, exist_ok=True) makes sure
\* exist, line 118
mkdir_parents(dirs, folder) ==
  dirs \cup {SubSeq(folder, 1, k) : k \in 1..Len(folder)}

\* the listing without the file f
without(listing, f) == SelectSeq(listing, LAMBDA g : g # f)

\* the loop of organize_files, lines 73-123, over the files left (todo); an
\* exception ends the loop and the call (raised)
RECURSIVE organize_loop(_, _, _)
organize_loop(st, todo, dry_run) ==
  IF todo = <<>> THEN st
  ELSE
    LET filename == Head(todo)
        date_part == split(filename, "_")[1]
        ymd == split(date_part, "-")
        metric_type == IF contains(filename, <<"_", "sleep", "-", "hrv", ".json">>)
                         THEN "hrv"
                       ELSE IF contains(filename, <<"_", "sleep", "-", "rhr", ".json">>)
                         THEN "rhr"
                       ELSE "unknown"
        target_folder == <<metric_type, ymd[1], ymd[2]>>
        target_path == <<metric_type, ymd[1], ymd[2], filename>>
        skipped == [st EXCEPT !.skipped_count = @ + 1]
    IN IF ~contains(filename, <<"_", "sleep", "-">>)
         THEN organize_loop(skipped, Tail(todo), dry_run)
       ELSE IF Len(ymd) # 3
         THEN [st EXCEPT !.raised = "ValueError"]
       ELSE IF metric_type = "unknown"
         THEN organize_loop(skipped, Tail(todo), dry_run)
       ELSE IF target_path \in DOMAIN st.disk.organized
         THEN organize_loop([st EXCEPT !.already_exists_count = @ + 1],
                            Tail(todo), dry_run)
       ELSE IF dry_run
         THEN organize_loop([st EXCEPT !.moved_count = @ + 1,
                                       !.moved = Append(@, filename)],
                            Tail(todo), dry_run)
       ELSE organize_loop(
              [st EXCEPT !.moved_count = @ + 1,
                         !.moved = Append(@, filename),
                         !.disk = [root |-> without(st.disk.root, filename),
                                   dirs |-> mkdir_parents(st.disk.dirs, target_folder),
                                   organized |->
                                     [t \in DOMAIN st.disk.organized \cup {target_path} |->
                                        IF t = target_path THEN "from root"
                                        ELSE st.disk.organized[t]]]],
              Tail(todo), dry_run)

\* organize_files as if dry_run were not looked at
organize_files_ignores_dry_run(d, dry_run) ==
  LET files_in_root == glob_json(d.root)
      st == [disk |-> d, moved_count |-> 0, skipped_count |-> 0,
             already_exists_count |-> 0, moved |-> <<>>, raised |-> "no",
             found |-> Len(files_in_root)]
  IN IF files_in_root = <<>> THEN st
     ELSE organize_loop(st, files_in_root, FALSE)

\* organize_files(dry_run), lines 39-126, on the data directory d
organize_files(d, dry_run) ==
  LET files_in_root == glob_json(d.root)
      st == [disk |-> d, moved_count |-> 0, skipped_count |-> 0,
             already_exists_count |-> 0, moved |-> <<>>, raised |-> "no",
             found |-> Len(files_in_root)]
  IN IF files_in_root = <<>> THEN st
     ELSE organize_loop(st, files_in_root, dry_run)

\* names a data/ root may hold
Name(date_part, metric) == date_part \o <<"_", "sleep", "-", metric, ".json">>

RootNames ==
  {Name(<<"2025", "-", "10", "-", "24">>, "hrv"),
   Name(<<"2025", "-", "10", "-", "24">>, "rhr"),
   Name(<<"2025", "-", "11", "-", "02">>, "hrv"),
   Name(<<"2025", "-", "10", "-", "24">>, "spo2"),
   Name(<<"backup">>, "hrv"),
   Name(<<"2025", "-", "10">>, "rhr"),
   Name(<<"old", "-", "copy", "-", "1">>, "hrv"),
   <<"notes", ".json">>,
   <<"README", ".md">>}

\* listings of at most n distinct names
RECURSIVE Listings(_)
Listings(n) ==
  IF n = 0 THEN {<<>>}
  ELSE LET shorter == Listings(n - 1)
           longer == {Append(l, f) : l \in shorter, f \in RootNames}
       IN shorter \cup
          {l \in longer : \A i, j \in DOMAIN l : i # j => l[i] # l[j]}

\* files already organized into data/<metric>/<year>/<month>/
OrganizedBefore ==
  {<<"hrv", <<"2025">>, <<"10">>, Name(<<"2025", "-", "10", "-", "24">>, "hrv")>>,
   <<"rhr", <<"2025">>, <<"10">>, Name(<<"2025", "-", "10", "-", "24">>, "rhr")>>}

\* a data directory: the listing of its root in the order the file system
\* returns it, the folders below it, the files organized below it
Disk(listing, targets) ==
  [root |-> listing,
   dirs |-> UNION {mkdir_parents({}, SubSeq(t, 1, 3)) : t \in targets},
   organized |-> [t \in targets |-> "organized before"]]

NoDisk == Disk(<<>>, {})

\* no call of organize_files yet
NoOrganize ==
  [n |-> 0, dry_run |-> FALSE, before |-> NoDisk, found |-> 0,
   moved_count |-> 0, skipped_count |-> 0, already_exists_count |-> 0,
   moved |-> <<>>, raised |-> "no",
   prev_dry_run |-> FALSE, prev_moved |-> <<>>, prev_raised |-> "no"]

\* one call of organize_files
organize_call(w, dry_run) ==
  LET st == organize_files(w.disk, dry_run)
  IN [w EXCEPT !.disk = st.disk,
               !.org = [n |-> w.org.n + 1, dry_run |-> dry_run, before |-> w.disk,
                        found |-> st.found,
                        moved_count |-> st.moved_count,
                        skipped_count |-> st.skipped_count,
                        already_exists_count |-> st.already_exists_count,
                        moved |-> st.moved, raised |-> st.raised,
                        prev_dry_run |-> w.org.dry_run,
                        prev_moved |-> w.org.moved,
                        prev_raised |-> w.org.raised]]

\* ------------------------------------------------------------- actions
\* the body the k-th GET of a call is answered with: its own JSON document
\* (named by k) or something that is not JSON
DataBodies(w, p) == {NotJson, Count(w.cur[p].log, "get")}

make_api_request(p) ==
  /\ proc[p].pc \in {"idle", "done"}
  /\ calls < MaxCalls
  /\ \E auto_refresh \in BOOLEAN :
       Apply(make_api_request_entry(World, p, auto_refresh))

refresh_access_token(p) ==
  /\ proc[p].pc \in {"idle", "done"}
  /\ calls < MaxCalls
  /\ Apply(refresh_access_token_entry(World, p))

requests_post(p) ==
  /\ proc[p].pc = "post"
  /\ \E status \in TokenStatuses, body \in TokenBodies :
       Apply(post_returns(World, p, status, body))

requests_get(p) ==
  /\ proc[p].pc \in {"get1", "get2"}
  /\ \E status \in DataStatuses, body \in DataBodies(World, p) :
       Apply(get_returns(World, p, status, body))

key_response(p) ==
  /\ proc[p].pc = "key"
  /\ \E ok \in BOOLEAN : Apply(key_returns(World, p, ok))

secret_response(p) ==
  /\ proc[p].pc = "put"
  /\ \E ok \in BOOLEAN : Apply(put_returns(World, p, ok))

get_recent_sleep_hrv(p) ==
  /\ proc[p].pc \in {"idle", "done"}
  /\ calls < MaxCalls
  /\ \E days \in DaysArgs, today \in Todays :
       Apply(get_recent_sleep_hrv_entry(World, p, days, today))

Step(p) ==
  \/ make_api_request(p)
  \/ refresh_access_token(p)
  \/ requests_post(p)
  \/ requests_get(p)
  \/ key_response(p)
  \/ secret_response(p)

InitEnv ==
  { e \in [EnvNames -> {Unset, EmptyStr, Configured, 2}] :
      /\ e["OURA_CLIENT_ID"] \in {Unset, EmptyStr, Configured}
      /\ e["OURA_CLIENT_SECRET"] \in {Unset, EmptyStr, Configured}
      /\ e["OURA_ACCESS_TOKEN"] \in {Unset, EmptyStr, Configured}
      /\ e["OURA_REFRESH_TOKEN"] \in {Unset, EmptyStr, Configured}
      /\ e["REPO_SECRETS_TOKEN"] \in {Unset, Configured}
      \* not set, "owner" (one part) or "owner/name" (two parts)
      /\ e["GITHUB_REPOSITORY"] \in {Unset, 1, 2} }

\* the state before the first call, given the environment
InitCalls ==
  /\ secrets = [n \in SecretNames |-> env[n]]
  /\ issued = Configured
  /\ calls = 0
  /\ proc = [p \in Procs |-> NewProc]
  /\ cur = [p \in Procs |-> NewCall("none", FALSE, env)]
  /\ prev = [p \in Procs |-> NewCall("none", FALSE, env)]
  /\ rf = [p \in Procs |-> NewRefresh(env, secrets, 0)]

\* one run of main() starts
main(p) ==
  /\ run.state = "none"
  /\ proc[p].pc = "idle"
  /\ calls < MaxCalls
  /\ \E today \in Todays : Apply(main_entry(World, p, today))

\* get_recent_sleep_hrv has returned or raised inside main()
main_continues(p) ==
  /\ run.state = "fetching"
  /\ proc[p].pc = "done"
  /\ \E sleep_data \in Payloads : Apply(main_returns(World, p, sleep_data))

\* one call of the writer named fn
save(fn) ==
  /\ wr.n < MaxSaves
  /\ \E sleep_data \in Payloads : Apply(save_call(World, fn, sleep_data))

\* one call of organize_files(dry_run)
organize(dry_run) ==
  /\ org.n < MaxOrganize
  /\ Apply(organize_call(World, dry_run))

\* caller p makes its one request, make_api_request with auto_refresh=True
get(p) ==
  /\ proc[p].pc = "idle"
  /\ Apply(make_api_request_entry(World, p, TRUE))

\* the debug variant's make_api_request is called
debug_make_api_request(p) ==
  /\ proc[p].pc \in {"idle", "done"}
  /\ calls < MaxCalls
  /\ Apply(debug_make_api_request_entry(World, p))

debug_requests_post(p) ==
  /\ proc[p].pc = "debug_post"
  /\ \E status \in TokenStatuses, body \in TokenBodies :
       Apply(debug_post_returns(World, p, status, body))

debug_requests_get(p) ==
  /\ proc[p].pc \in {"debug_get1", "debug_get2"}
  /\ \E status \in DataStatuses, body \in DataBodies(World, p) :
       Apply(debug_get_returns(World, p, status, body))

\* no window requested, an empty data directory, no writer call, no run
InitRest ==
  /\ win = NoWindow
  /\ files = NoFiles
  /\ wr = NoSave
  /\ run = NoRun
  /\ disk = NoDisk
  /\ org = NoOrganize

Init ==
  /\ env \in InitEnv
  /\ InitCalls
  /\ InitRest

Next == Step(1)

Spec == Init /\ [][Next]_vars

\* get_recent_sleep_hrv called with every days argument on every today, all
\* credentials configured, the access token present or not, no secret store
InitWindow ==
  /\ env \in {e \in InitEnv :
                /\ e["OURA_CLIENT_ID"] = Configured
                /\ e["OURA_CLIENT_SECRET"] = Configured
                /\ e["OURA_REFRESH_TOKEN"] = Configured
                /\ e["OURA_ACCESS_TOKEN"] \in {Unset, Configured}
                /\ e["REPO_SECRETS_TOKEN"] = Unset
                /\ e["GITHUB_REPOSITORY"] = Unset}
  /\ InitCalls
  /\ InitRest

NextWindow ==
  \/ get_recent_sleep_hrv(1)
  \/ requests_post(1)
  \/ requests_get(1)

SpecWindow == InitWindow /\ [][NextWindow]_vars

\* a run of main() from any environment, on an empty data directory
InitRun ==
  /\ env \in InitEnv
  /\ InitCalls
  /\ InitRest

NextRun ==
  \/ main(1)
  \/ main_continues(1)
  \/ requests_post(1)
  \/ requests_get(1)
  \/ key_response(1)
  \/ secret_response(1)

SpecRun == InitRun /\ [][NextRun]_vars

\* data directories the writers may find: empty, or holding another session's
\* HRV file of 2025-10-24
InitialDirs ==
  {NoFiles,
   write_file(NoFiles, <<"2025-10-24", "hrv">>,
              json_dump(extract_hrv_timeseries(<<NightB2>>)))}

\* calls of the file writers alone
InitFiles ==
  /\ env = [n \in EnvNames |-> Configured]
  /\ InitCalls
  /\ win = NoWindow
  /\ files \in InitialDirs
  /\ wr = NoSave
  /\ run = NoRun
  /\ disk = NoDisk
  /\ org = NoOrganize

NextFiles == \E fn \in WriterNames : save(fn)

SpecFiles == InitFiles /\ [][NextFiles]_vars

\* calls of the organizer alone, from any layout of the data directory
InitOrganize ==
  /\ env = [n \in EnvNames |-> Configured]
  /\ InitCalls
  /\ win = NoWindow
  /\ files = NoFiles
  /\ wr = NoSave
  /\ run = NoRun
  /\ \E listing \in Listings(MaxFiles), targets \in SUBSET OrganizedBefore :
       disk = Disk(listing, targets)
  /\ org = NoOrganize

NextOrganize == \E dry_run \in BOOLEAN : organize(dry_run)

SpecOrganize == InitOrganize /\ [][NextOrganize]_vars

\* two callers sharing the environment and the secret store, no lock: every
\* credential and the store are configured, so a refresh follows a 401 only
InitConc ==
  /\ env = [n \in EnvNames |->
              IF n = "GITHUB_REPOSITORY" THEN 2 ELSE Configured]
  /\ InitCalls
  /\ InitRest

NextConc ==
  \E p \in Procs :
    \/ get(p)
    \/ requests_post(p)
    \/ requests_get(p)
    \/ key_response(p)
    \/ secret_response(p)

SpecConc == InitConc /\ [][NextConc]_vars

\* the client and its debug variant, called in any order
NextVariants ==
  \/ make_api_request(1)
  \/ refresh_access_token(1)
  \/ requests_post(1)
  \/ requests_get(1)
  \/ key_response(1)
  \/ secret_response(1)
  \/ debug_make_api_request(1)
  \/ debug_requests_post(1)
  \/ debug_requests_get(1)

\* the environments of Init whose client credentials are set or unset and
\* whose secret store is configured (identity token and owner/name) or not
InitVariants ==
  /\ Init
  /\ env["OURA_CLIENT_ID"] # EmptyStr
  /\ env["OURA_CLIENT_SECRET"] # EmptyStr
  /\ \/ env["REPO_SECRETS_TOKEN"] = Configured /\ env["GITHUB_REPOSITORY"] = 2
     \/ env["REPO_SECRETS_TOKEN"] = Unset /\ env["GITHUB_REPOSITORY"] = Unset

SpecVariants == InitVariants /\ [][NextVariants]_vars

\* ------------------------------------------------------------ properties
Last(s) == s[Len(s)]

\* get() of the spec: make_api_request with the default auto_refresh=True
IsGet(c) == c.op = "make_api_request" /\ c.auto

Done == proc[1].pc = "done"

\* the access token was present when the call started
TokenAtEntry(c) == c.entry["OURA_ACCESS_TOKEN"] \notin {Unset, EmptyStr}

Gets(c) == Count(c.log, "get")

Refreshes(c) == Count(c.log, "refresh")

\* calls of the refresher made after the first GET of the call was sent
RefreshesAfterFirstGet(c) ==
  Cardinality({i \in DOMAIN c.log :
                 c.log[i] = "refresh" /\ \E j \in 1..(i - 1) : c.log[j] = "get"})

\* C1 as stated: a get() whose first GET is answered 401 and whose reissued
\* GET is answered 200 (with a JSON body) calls the refresher exactly once and
\* returns the second body.
C1_AsStated ==
  (Done /\ IsGet(cur[1]) /\ cur[1].statuses = <<401, 200>>
        /\ cur[1].bodies[2] # NotJson)
    => /\ Refreshes(cur[1]) = 1
       /\ cur[1].result = [kind |-> "ok", val |-> cur[1].bodies[2], msg |-> ""]

\* C1 (amended): a get() whose first GET is answered 401 and whose reissued GET
\* is answered 200 with a JSON body issues two GETs, calls the refresher
\* exactly once after the 401, and returns the second body; over the whole
\* call the refresher is called once if the access token was present at
\* entry and twice (eager refresh, then the 401) if it was absent.
C1_RefreshOnceThenSecondBody ==
  (Done /\ IsGet(cur[1]) /\ cur[1].statuses = <<401, 200>>
        /\ cur[1].bodies[2] # NotJson)
    => /\ RefreshesAfterFirstGet(cur[1]) = 1
       /\ Refreshes(cur[1]) = (IF TokenAtEntry(cur[1]) THEN 1 ELSE 2)
       /\ Gets(cur[1]) = 2
       /\ cur[1].result = [kind |-> "ok", val |-> cur[1].bodies[2], msg |-> ""]

C1_Witness ==
  /\ Done /\ IsGet(cur[1]) /\ TokenAtEntry(cur[1])
  /\ cur[1].statuses = <<401, 200>>
  /\ cur[1].bodies = <<1, 2>>
  /\ Refreshes(cur[1]) = 1
  /\ cur[1].result.kind = "ok" /\ cur[1].result.val = 2

\* C2 as stated: a get() whose two GETs are both answered 401 fails with the
\* HTTPError of raise_for_status after exactly one refresher call and two GETs.
C2_AsStated ==
  (Done /\ IsGet(cur[1]) /\ cur[1].statuses = <<401, 401>>)
    => /\ cur[1].result.kind = "HTTPError" /\ cur[1].result.val = 401
       /\ Refreshes(cur[1]) = 1
       /\ Gets(cur[1]) = 2

\* C2 (amended): a get() whose two GETs are both answered 401 fails with the
\* HTTPError of raise_for_status (status 401) after two GETs and exactly one
\* refresher call made for the 401; over the whole call the refresher is
\* called once if the access token was present at entry, twice if absent.
C2_Double401FailsAfterOneRetry ==
  (Done /\ IsGet(cur[1]) /\ cur[1].statuses = <<401, 401>>)
    => /\ cur[1].result.kind = "HTTPError" /\ cur[1].result.val = 401
       /\ RefreshesAfterFirstGet(cur[1]) = 1
       /\ Refreshes(cur[1]) = (IF TokenAtEntry(cur[1]) THEN 1 ELSE 2)
       /\ Gets(cur[1]) = 2

C2_Witness ==
  /\ Done /\ IsGet(cur[1]) /\ TokenAtEntry(cur[1])
  /\ cur[1].statuses = <<401, 401>>
  /\ cur[1].result.kind = "HTTPError"
  /\ Refreshes(cur[1]) = 1 /\ Gets(cur[1]) = 2

\* C3 as stated: every first response that is neither 200 nor 401 makes get()
\* fail with HTTPError with no refresher call and no second GET; every retried
\* response that is not 200 makes get() fail with HTTPError.
C3_AsStated ==
  (Done /\ IsGet(cur[1]) /\ cur[1].statuses # <<>>)
    => /\ cur[1].statuses[1] \notin {200, 401}
            => /\ cur[1].result.kind = "HTTPError"
               /\ Gets(cur[1]) = 1
               /\ RefreshesAfterFirstGet(cur[1]) = 0
       /\ (Len(cur[1].statuses) = 2 /\ cur[1].statuses[2] # 200)
            => cur[1].result.kind = "HTTPError"

\* C3 (amended): a first response that is neither 200 nor 401 is never
\* followed by a refresher call or a second GET; get() fails with HTTPError
\* exactly when the status of its last response is in 400..599; a last
\* response with any other status (204 as well as 200) has its body parsed:
\* get() returns it, or fails with the decode error when it is not JSON.
C3_OnlyErrorStatusesRaise ==
  (Done /\ IsGet(cur[1]) /\ cur[1].statuses # <<>>)
    => LET n == Len(cur[1].statuses)
           st == cur[1].statuses[n]
           body == cur[1].bodies[n]
       IN /\ cur[1].statuses[1] \notin {200, 401}
               => /\ n = 1
                  /\ Gets(cur[1]) = 1
                  /\ RefreshesAfterFirstGet(cur[1]) = 0
          /\ (n = 2 \/ cur[1].statuses[1] # 401)
               => IF st >= 400 /\ st < 600
                    THEN cur[1].result = [kind |-> "HTTPError", val |-> st, msg |-> ""]
                  ELSE IF body = NotJson
                    THEN cur[1].result.kind = "JSONDecodeError"
                  ELSE cur[1].result = [kind |-> "ok", val |-> body, msg |-> ""]

C3_Witness ==
  /\ Done /\ IsGet(cur[1])
  /\ cur[1].statuses = <<404>>
  /\ cur[1].result.kind = "HTTPError" /\ cur[1].result.val = 404
  /\ Gets(cur[1]) = 1 /\ Refreshes(cur[1]) = 0

\* C4: two get() calls in a row, both answered 200, the access token present
\* at the start: one GET per call, no refresher call, and the environment
\* after the second call is the one before the first.
C4_TwoGetsNoRefresh ==
  (Done /\ IsGet(prev[1]) /\ IsGet(cur[1]) /\ TokenAtEntry(prev[1])
        /\ prev[1].statuses = <<200>> /\ cur[1].statuses = <<200>>)
    => /\ Gets(prev[1]) = 1 /\ Gets(cur[1]) = 1
       /\ Refreshes(prev[1]) = 0 /\ Refreshes(cur[1]) = 0
       /\ Count(prev[1].log, "post") = 0 /\ Count(cur[1].log, "post") = 0
       /\ cur[1].entry = prev[1].entry
       /\ env = prev[1].entry
       /\ cur[1].bearers = prev[1].bearers

C4_Witness ==
  /\ Done /\ IsGet(prev[1]) /\ IsGet(cur[1]) /\ TokenAtEntry(prev[1])
  /\ prev[1].statuses = <<200>> /\ cur[1].statuses = <<200>>
  /\ prev[1].result.kind = "ok" /\ cur[1].result.kind = "ok"
  /\ calls = 2

\* C5: a get() that starts with the access token unset or empty calls the
\* refresher first, and sends a GET only after a refresher call has returned;
\* if the eager refresh raises, get() ends with that error and no GET is sent.
C5_EagerRefreshBeforeAnyGet ==
  (IsGet(cur[1]) /\ ~TokenAtEntry(cur[1]))
    => /\ cur[1].log # <<>> /\ cur[1].log[1] = "refresh"
       /\ \A i \in DOMAIN cur[1].log :
            cur[1].log[i] = "get"
              => \E j \in 1..(i - 1) : cur[1].log[j] = "refresh_returned"
       /\ (rf[1].state = "raised" /\ proc[1].ret = "eager")
            => /\ Done
               /\ Gets(cur[1]) = 0
               /\ cur[1].result.kind = rf[1].kind
               /\ cur[1].result.kind \in
                    {"ValueError", "RuntimeError", "JSONDecodeError", "KeyError"}

C5_Witness ==
  /\ Done /\ IsGet(cur[1])
  /\ cur[1].entry["OURA_ACCESS_TOKEN"] = EmptyStr
  /\ rf[1].state = "raised" /\ proc[1].ret = "eager"
  /\ cur[1].log = <<"refresh", "post", "refresh_raised">>
  /\ cur[1].result.kind = "RuntimeError"

\* C6: after a get() in which the refresher returned a token, the environment
\* holds the token it returned last; the next get() sends that token in its
\* first GET and, when that GET is answered 200, calls no refresher.
C6_RefreshedTokenIsReused ==
  /\ (Done /\ IsGet(cur[1]) /\ cur[1].tokens # <<>>)
       => env["OURA_ACCESS_TOKEN"] = Last(cur[1].tokens)
  /\ (IsGet(prev[1]) /\ prev[1].tokens # <<>> /\ IsGet(cur[1]))
       => /\ cur[1].bearers # <<>>
          /\ cur[1].bearers[1] = Last(prev[1].tokens)
          /\ cur[1].log[1] = "get"
          /\ (cur[1].statuses # <<>> /\ cur[1].statuses[1] = 200)
               => Refreshes(cur[1]) = 0

C6_Witness ==
  /\ Done /\ IsGet(prev[1]) /\ IsGet(cur[1])
  /\ prev[1].tokens # <<>>
  /\ prev[1].result.kind = "ok"
  /\ cur[1].bearers = <<Last(prev[1].tokens)>>
  /\ cur[1].statuses = <<200>>
  /\ Refreshes(cur[1]) = 0

\* a credential the refresher needs is unset or empty in environment e
MissingCredential(e) ==
  \E n \in {"OURA_CLIENT_ID", "OURA_CLIENT_SECRET", "OURA_REFRESH_TOKEN"} :
    e[n] \in {Unset, EmptyStr}

\* C7: a refresher call made with client_id, client_secret or refresh_token
\* unset or empty raises ValueError, sends nothing to the token endpoint or
\* the secret store, and leaves the environment and the store as they were.
C7_MissingCredentialNoNetwork ==
  (rf[1].state # "none" /\ MissingCredential(rf[1].entry))
    => /\ rf[1].state = "raised"
       /\ rf[1].kind = "ValueError"
       /\ rf[1].log = <<>>
       /\ rf[1].pushes = <<>>
       /\ env = rf[1].entry
       /\ secrets = rf[1].stored
       /\ rf[1].call = calls
            => /\ Done
               /\ cur[1].result.kind = "ValueError"
               /\ Count(cur[1].log, "post") = Count(cur[1].log, "refresh") - 1

C7_Witness ==
  /\ rf[1].state = "raised" /\ rf[1].kind = "ValueError"
  /\ rf[1].entry["OURA_CLIENT_SECRET"] = EmptyStr
  /\ rf[1].entry["OURA_CLIENT_ID"] = Configured
  /\ rf[1].entry["OURA_REFRESH_TOKEN"] = Configured
  /\ cur[1].op = "refresh_access_token"
  /\ Done

\* C8: a refresher call answered 200 with an access_token and no
\* refresh_token changes OURA_ACCESS_TOKEN only, to the new token, and sends
\* nothing to the secret store, configured or not.
C8_AccessOnlyUpdatesOneField ==
  (rf[1].state = "returned" /\ rf[1].status = 200 /\ rf[1].body = "AccessOnly")
    => /\ env = [rf[1].entry EXCEPT !["OURA_ACCESS_TOKEN"] = rf[1].access]
       /\ rf[1].access # rf[1].entry["OURA_ACCESS_TOKEN"]
       /\ rf[1].access > 0
       /\ rf[1].pushes = <<>>
       /\ rf[1].log = <<"post">>
       /\ secrets = rf[1].stored

C8_Witness ==
  /\ rf[1].state = "returned" /\ rf[1].status = 200 /\ rf[1].body = "AccessOnly"
  /\ rf[1].entry["REPO_SECRETS_TOKEN"] = Configured
  /\ rf[1].entry["GITHUB_REPOSITORY"] = 2
  /\ env["OURA_ACCESS_TOKEN"] = rf[1].access
  /\ env["OURA_REFRESH_TOKEN"] = Configured

\* C9 as stated: a refresher call answered 200 with both tokens updates both
\* fields and pushes each secret exactly once.
C9_AsStated ==
  (rf[1].state = "returned" /\ rf[1].status = 200
        /\ rf[1].body = "AccessAndRefresh")
    => /\ env["OURA_ACCESS_TOKEN"] = rf[1].access
       /\ env["OURA_REFRESH_TOKEN"] = rf[1].refresh
       /\ rf[1].pushes = <<"OURA_ACCESS_TOKEN", "OURA_REFRESH_TOKEN">>

\* C9 (amended): a refresher call answered 200 with both tokens updates both
\* fields; with REPO_SECRETS_TOKEN set and GITHUB_REPOSITORY of the form
\* owner/name it pushes OURA_ACCESS_TOKEN once and then, if that push did not
\* fail, OURA_REFRESH_TOKEN once; otherwise it pushes nothing.
C9_RotationPushesWhenConfigured ==
  (rf[1].state = "returned" /\ rf[1].status = 200
        /\ rf[1].body = "AccessAndRefresh")
    => /\ env = [rf[1].entry EXCEPT !["OURA_ACCESS_TOKEN"] = rf[1].access,
                                    !["OURA_REFRESH_TOKEN"] = rf[1].refresh]
       /\ rf[1].access > 0 /\ rf[1].refresh > 0 /\ rf[1].access # rf[1].refresh
       /\ rf[1].pushes =
            (IF rf[1].entry["REPO_SECRETS_TOKEN"] \notin {Unset, EmptyStr}
                  /\ rf[1].entry["GITHUB_REPOSITORY"] = 2
               THEN IF rf[1].failed = <<"OURA_ACCESS_TOKEN">>
                      THEN <<"OURA_ACCESS_TOKEN">>
                      ELSE <<"OURA_ACCESS_TOKEN", "OURA_REFRESH_TOKEN">>
               ELSE <<>>)
       /\ rf[1].failed = <<>>
            => secrets = IF rf[1].pushes = <<>>
                           THEN rf[1].stored
                           ELSE [n \in SecretNames |-> env[n]]

C9_Witness ==
  /\ rf[1].state = "returned" /\ rf[1].status = 200
  /\ rf[1].body = "AccessAndRefresh"
  /\ rf[1].pushes = <<"OURA_ACCESS_TOKEN", "OURA_REFRESH_TOKEN">>
  /\ rf[1].failed = <<>>
  /\ secrets["OURA_ACCESS_TOKEN"] = rf[1].access
  /\ secrets["OURA_REFRESH_TOKEN"] = rf[1].refresh
  /\ env["OURA_REFRESH_TOKEN"] = rf[1].refresh

\* C10: when a secret-store request of a refresher call fails (the key GET or
\* the PUT, of either secret), the refresher still returns the new access
\* token, the environment holds both new tokens, and a make_api_request that
\* called it sends its GET next, with the new token.
C10_PushFailureIsSwallowed ==
  (rf[1].failed # <<>> /\ rf[1].call = calls)
    => /\ rf[1].state = "returned"
       /\ Len(rf[1].failed) = 1
       /\ rf[1].access > 0 /\ rf[1].refresh > 0
       /\ env["OURA_ACCESS_TOKEN"] = rf[1].access
       /\ env["OURA_REFRESH_TOKEN"] = rf[1].refresh
       /\ cur[1].tokens # <<>> /\ Last(cur[1].tokens) = rf[1].access
       /\ cur[1].op = "make_api_request"
            => \E i \in DOMAIN cur[1].log :
                 /\ cur[1].log[i] = "refresh_returned"
                 /\ \A j \in (i + 1)..Len(cur[1].log) : cur[1].log[j] = "get"
                 /\ i + 1 = Len(cur[1].log)
                 /\ Last(cur[1].bearers) = rf[1].access
       /\ cur[1].op = "refresh_access_token"
            => /\ Done
               /\ cur[1].result = [kind |-> "ok", val |-> rf[1].access, msg |-> ""]

C10_Witness ==
  /\ Done /\ IsGet(cur[1])
  /\ rf[1].call = calls
  /\ rf[1].failed = <<"OURA_REFRESH_TOKEN">>
  /\ rf[1].log = <<"post", "key", "put", "key", "put">>
  /\ cur[1].result.kind = "ok"
  /\ env["OURA_REFRESH_TOKEN"] = rf[1].refresh

\* the latest refresher call of caller 1 belongs to its current call and raised
RefreshRaisedNow == rf[1].state = "raised" /\ rf[1].call = calls

C12_AsStated ==
  (rf[1].state \in {"raised", "returned"} /\ rf[1].log # <<>>)
    => /\ rf[1].status \notin {200, 400, 401}
            => /\ rf[1].state = "raised"
               /\ rf[1].kind = "RuntimeError"
               /\ env = rf[1].entry
       /\ rf[1].state = "returned" => rf[1].status = 200

\* C12 (amended): every token-endpoint status in 400..599 other than 400 and
\* 401 makes the refresher fail with the RuntimeError that carries the status
\* and leave the environment and the store unchanged; a status below 400 is
\* handled like 200 (a 201 with an access_token updates the environment and
\* returns), so the refresher returns exactly on statuses below 400 whose
\* body holds an access_token.
C12_OtherErrorStatusesRaise ==
  /\ (RefreshRaisedNow /\ rf[1].status >= 400 /\ rf[1].status < 600
           /\ rf[1].status \notin {400, 401})
       => /\ Done
          /\ cur[1].result =
               [kind |-> "RuntimeError", val |-> rf[1].status, msg |-> "status"]
          /\ rf[1].log = <<"post">>
          /\ env = rf[1].entry
          /\ secrets = rf[1].stored
  /\ (rf[1].state = "raised" /\ rf[1].log # <<>> /\ rf[1].status < 400)
       => /\ rf[1].kind \in {"JSONDecodeError", "KeyError"}
          /\ env = rf[1].entry
  /\ rf[1].state = "returned"
       => /\ rf[1].status < 400
          /\ rf[1].body \in {"AccessOnly", "AccessAndRefresh"}
          /\ env["OURA_ACCESS_TOKEN"] = rf[1].access

C12_Witness ==
  /\ Done /\ RefreshRaisedNow /\ rf[1].status = 500
  /\ cur[1].result = [kind |-> "RuntimeError", val |-> 500, msg |-> "status"]
  /\ env = rf[1].entry

\* a get_recent_sleep_hrv call is the current call of caller 1
WindowCall == win.call # 0 /\ win.call = calls

\* C13: for days >= 0, get_recent_sleep_hrv(days) requests
\* start_date = today - days and end_date = today + 1; days = 3 on 2025-10-24
\* requests 2025-10-21 to 2025-10-25.
C13_WindowIsTodayMinusDays ==
  (WindowCall /\ win.days >= 0)
    => /\ win.start_date = isoformat(win.today - win.days)
       /\ win.end_date = isoformat(win.today + 1)
       /\ (win.days = 3 /\ win.today = days_from_civil(2025, 10, 24))
            => /\ win.start_date = <<2025, 10, 21>>
               /\ win.end_date = <<2025, 10, 25>>

\* C14: get_recent_sleep_hrv with a negative days raises ValueError and sends
\* no GET and no POST.
C14_NegativeDaysRejected ==
  (WindowCall /\ win.days < 0)
    => /\ Count(cur[1].log, "get") = 0
       /\ Count(cur[1].log, "post") = 0
       /\ Done
       /\ cur[1].result.kind = "ValueError"

\* a run of main() has started
RunStarted == run.state # "none"

\* C15: a run of main() started with client_id, client_secret or
\* refresh_token unset or empty ends at once with the configuration error
\* (ValueError), before any fetch or refresh and with the data directory
\* untouched; a run started with the three present goes on to the fetch of the
\* last days_to_get days, and when only the access token is absent the first
\* thing the fetch does is the eager refresh.
C15_MissingConfigurationFailsFirst ==
  RunStarted =>
    /\ MissingCredential(run.entry)
         => /\ run.state = "done"
            /\ run.result.kind = "ValueError"
            /\ calls = 0
            /\ cur[1].log = <<>>
            /\ rf[1].state = "none"
            /\ env = run.entry
            /\ files = run.before
    /\ ~MissingCredential(run.entry)
         => /\ calls = 1
            /\ win.days = days_to_get
            /\ IsGet(cur[1])
            /\ run.entry["OURA_ACCESS_TOKEN"] \in {Unset, EmptyStr}
                 => /\ cur[1].log # <<>>
                    /\ cur[1].log[1] = "refresh"

\* a run refused for a missing refresh token although an access token is set
C15_Witness ==
  /\ run.state = "done"
  /\ run.result.kind = "ValueError"
  /\ run.entry["OURA_REFRESH_TOKEN"] = Unset
  /\ run.entry["OURA_CLIENT_ID"] = Configured
  /\ run.entry["OURA_CLIENT_SECRET"] = Configured
  /\ run.entry["OURA_ACCESS_TOKEN"] = Configured
  /\ calls = 0

\* a run started without an access token that refreshed eagerly and wrote files
C15_EagerRun ==
  /\ run.state = "done"
  /\ run.entry["OURA_ACCESS_TOKEN"] = Unset
  /\ run.result.kind = "ok"
  /\ cur[1].log[1] = "refresh"
  /\ run.files_created # <<>>

\* the fetch of the run has failed
FetchFailed == calls = 1 /\ Done /\ cur[1].result.kind # "ok"

\* C16: inside a run of main(), a refresher call that raises ends the fetch
\* with that error; once the run has ended after a failed fetch, the run's
\* result is the fetch's error itself, and the run created no file and left
\* the data directory as it found it; nothing is written while fetching.
C16_FailureAbortsRun ==
  /\ (RunStarted /\ RefreshRaisedNow)
       => /\ Done
          /\ cur[1].result.kind = rf[1].kind
          /\ cur[1].result.kind \in {"ValueError", "RuntimeError", "JSONDecodeError",
                                     "KeyError"}
  /\ (run.state = "done" /\ FetchFailed)
       => /\ run.result = cur[1].result
          /\ run.result.kind \notin {"ok", "none"}
          /\ run.files_created = <<>>
          /\ files = run.before
  /\ run.state = "fetching" => files = run.before

\* a run ended by the error of a refresher call made after a 401
C16_Witness ==
  /\ run.state = "done"
  /\ FetchFailed
  /\ cur[1].statuses # <<>>
  /\ cur[1].statuses[1] = 401
  /\ rf[1].state = "raised"
  /\ run.result.kind = "RuntimeError"

\* a run ended by the HTTP error of the retried request
C16_RetryFailed ==
  /\ run.state = "done"
  /\ FetchFailed
  /\ Len(cur[1].statuses) = 2
  /\ run.result.kind = "HTTPError"

\* C17: a second call of the same writer on the same payload, from the files
\* the first call left, creates no file (empty files_created) and leaves the
\* data directory as it was.
C17_SecondSaveWritesNothing ==
  (wr.n >= 2 /\ wr.fn = wr.prev_fn /\ wr.sleep_data = wr.prev_sleep_data)
    => /\ wr.files_created = <<>>
       /\ files = wr.before

\* C17, for payloads whose sessions have pairwise distinct days
C17_DistinctDaysIdempotent ==
  (/\ wr.n >= 2 /\ wr.fn = wr.prev_fn /\ wr.sleep_data = wr.prev_sleep_data
   /\ \A i, j \in DOMAIN wr.sleep_data.data :
        i # j => wr.sleep_data.data[i].day # wr.sleep_data.data[j].day)
    => /\ wr.files_created = <<>>
       /\ files = wr.before

\* a name of the form YYYY-MM-DD_sleep-hrv.json or YYYY-MM-DD_sleep-rhr.json
Digits == {"2025", "10", "11", "24", "02"}

WellNamed(f) ==
  /\ Len(f) = 10
  /\ f[1] \in Digits /\ f[2] = "-" /\ f[3] \in Digits /\ f[4] = "-" /\ f[5] \in Digits
  /\ f[6] = "_" /\ f[7] = "sleep" /\ f[8] = "-" /\ f[9] \in {"hrv", "rhr"}
  /\ f[10] = ".json"

\* data/<hrv|rhr>/<YYYY>/<MM>/<same name>
TargetOf(f) == <<f[9], <<f[1]>>, <<f[3]>>, f>>

InRoot(d, f) == \E i \in DOMAIN d.root : d.root[i] = f

\* the well-named file f of the root was handled as C18 says
HandledAsClaimed(f) ==
  IF TargetOf(f) \in DOMAIN org.before.organized
    THEN /\ InRoot(disk, f)
         /\ disk.organized[TargetOf(f)] = org.before.organized[TargetOf(f)]
    ELSE /\ ~InRoot(disk, f)
         /\ TargetOf(f) \in DOMAIN disk.organized
         /\ disk.organized[TargetOf(f)] = "from root"

\* C18: after a non-dry call of organize_files, every well-named file that
\* was in the data/ root is at data/<hrv|rhr>/<YYYY>/<MM>/<same name> and no
\* longer in the root, unless that target existed: then the target is as it
\* was and the file is still in the root.
C18_WellNamedFilesAreMoved ==
  (org.n = 1 /\ ~org.dry_run)
    => \A i \in DOMAIN org.before.root :
         WellNamed(org.before.root[i]) => HandledAsClaimed(org.before.root[i])

\* C18 for the calls that no file name made raise
C18_MovedWhenNothingRaises ==
  (org.n = 1 /\ ~org.dry_run /\ org.raised = "no")
    => \A i \in DOMAIN org.before.root :
         WellNamed(org.before.root[i]) => HandledAsClaimed(org.before.root[i])

\* a non-dry call that moved one file and left another on its existing target
C18_MovedAndKept ==
  /\ org.n = 1 /\ ~org.dry_run /\ org.raised = "no"
  /\ org.moved_count = 1 /\ org.already_exists_count = 1

\* C19: a dry call of organize_files leaves the data directory (root listing,
\* folders, organized files) as it was; and the non-dry call that follows a
\* dry call, hence starts from the same layout, moves exactly the files the
\* dry call reported as "would move".
C19_DryRunChangesNothing ==
  /\ (org.n >= 1 /\ org.dry_run) => disk = org.before
  /\ (org.n >= 2 /\ org.prev_dry_run /\ ~org.dry_run)
       => /\ org.moved = org.prev_moved
          /\ org.raised = org.prev_raised
          /\ \A i \in DOMAIN org.before.root :
               (\E k \in DOMAIN org.prev_moved : org.prev_moved[k] = org.before.root[i])
                 <=> ~InRoot(disk, org.before.root[i])

\* a dry call that reported two files, followed by the call that moved them
C19_Witness ==
  /\ org.n = 2 /\ org.prev_dry_run /\ ~org.dry_run
  /\ Len(org.prev_moved) = 2
  /\ org.moved = org.prev_moved
  /\ Len(disk.root) = Len(org.before.root) - 2

\* caller p's refresher call put its rotated refresh_token into the store
PushedRefreshToken(p) ==
  /\ rf[p].state = "returned"
  /\ rf[p].refresh # 0
  /\ \E i \in DOMAIN rf[p].pushes : rf[p].pushes[i] = "OURA_REFRESH_TOKEN"
  /\ \A i \in DOMAIN rf[p].failed : rf[p].failed[i] # "OURA_REFRESH_TOKEN"

\* the store holds the refresh_token p pushed although q pushed one that was
\* issued later: the older token was written over the newer one
StaleOverwrite(p, q) ==
  /\ PushedRefreshToken(p) /\ PushedRefreshToken(q)
  /\ rf[p].refresh < rf[q].refresh
  /\ secrets["OURA_REFRESH_TOKEN"] = rf[p].refresh

\* C20: with two callers and no lock, whenever the secret store ends up with
\* a refresh_token older than one pushed before it, both callers had their
\* first GET answered 401 and both called the refresher once, and the stored
\* token is not the most recently issued one (which the environment holds).
C20_StaleOnlyAfterTwoRefreshes ==
  \A p, q \in Procs :
    StaleOverwrite(p, q)
      => /\ \A c \in Procs : /\ cur[c].statuses # <<>>
                             /\ cur[c].statuses[1] = 401
                             /\ Count(cur[c].log, "refresh") = 1
         /\ secrets["OURA_REFRESH_TOKEN"] < issued
         /\ env["OURA_REFRESH_TOKEN"] = rf[q].refresh

\* both callers are done, both saw a 401 and refreshed, and the store holds
\* the older of the two rotated refresh tokens
C20_Witness ==
  /\ \A c \in Procs : /\ proc[c].pc = "done"
                      /\ cur[c].statuses[1] = 401
                      /\ Count(cur[c].log, "refresh") = 1
  /\ \E p, q \in Procs : StaleOverwrite(p, q)
  /\ secrets["OURA_REFRESH_TOKEN"] # env["OURA_REFRESH_TOKEN"]

Posts(c) == Count(c.log, "post")

\* C21: in any one get(), whatever the endpoints answer, at most two GETs are
\* sent, at most one refresher call follows a GET, at most two POSTs go to
\* the token endpoint, and two POSTs occur only when the access token was
\* absent at entry and the first GET was answered 401.
C21_AtMostOneRefreshPer401 ==
  IsGet(cur[1])
    => /\ Gets(cur[1]) <= 2
       /\ RefreshesAfterFirstGet(cur[1]) <= 1
       /\ Refreshes(cur[1]) <= 2
       /\ Posts(cur[1]) <= 2
       /\ Posts(cur[1]) = 2
            => /\ ~TokenAtEntry(cur[1])
               /\ cur[1].statuses # <<>>
               /\ cur[1].statuses[1] = 401
               /\ cur[1].log[1] = "refresh"

\* a finished get() that sent two POSTs and two GETs
C21_Witness ==
  /\ Done /\ IsGet(cur[1])
  /\ Posts(cur[1]) = 2
  /\ Gets(cur[1]) = 2
  /\ ~TokenAtEntry(cur[1])
  /\ cur[1].statuses[1] = 401

\* C26: a call make_api_request(endpoint, auto_refresh=False) never calls
\* the refresher and never POSTs, sends exactly one GET (with the token of the
\* environment, '' when it is unset), and leaves the environment and the
\* secret store as they were at entry; a 401 is raised as the HTTP error.
C26_NoAutoRefreshNoRefresher ==
  (cur[1].op = "make_api_request" /\ ~cur[1].auto)
    => /\ Refreshes(cur[1]) = 0
       /\ Posts(cur[1]) = 0
       /\ Gets(cur[1]) = 1
       /\ cur[1].pushes = <<>>
       /\ env = cur[1].entry
       /\ cur[1].bearers = <<getenv_default(cur[1].entry, "OURA_ACCESS_TOKEN")>>
       /\ Done => /\ Len(cur[1].statuses) = 1
                  /\ cur[1].statuses[1] = 401
                       => cur[1].result = [kind |-> "HTTPError", val |-> 401, msg |-> ""]

\* a call with auto_refresh=False and no access token, answered 401
C26_Witness ==
  /\ Done
  /\ cur[1].op = "make_api_request" /\ ~cur[1].auto
  /\ cur[1].entry["OURA_ACCESS_TOKEN"] = Unset
  /\ cur[1].statuses = <<401>>
  /\ cur[1].result.kind = "HTTPError"

\* the store was configured when the refresher call started: the identity
\* token and the repository are set (non-empty)
StoreConfigured(e) ==
  /\ e["REPO_SECRETS_TOKEN"] \notin {Unset, EmptyStr}
  /\ e["GITHUB_REPOSITORY"] \notin {Unset, EmptyStr}

StoreRequests(r) == Count(r.log, "key") + Count(r.log, "put")

\* C25: a refresher call sends a request to the secret store only if the
\* token response carried a refresh_token and REPO_SECRETS_TOKEN and
\* GITHUB_REPOSITORY were both set; a refresher call that returned without
\* these sent nothing to the store, left the store as it was, and still put
\* the new access token (and the new refresh token, if any) into the
\* environment.
C25_PushOnlyWhenRotatedAndConfigured ==
  /\ StoreRequests(rf[1]) > 0
       => /\ rf[1].body = "AccessAndRefresh"
          /\ StoreConfigured(rf[1].entry)
  /\ (/\ rf[1].state = "returned"
      /\ ~(rf[1].body = "AccessAndRefresh" /\ StoreConfigured(rf[1].entry)))
       => /\ StoreRequests(rf[1]) = 0
          /\ rf[1].pushes = <<>>
          /\ secrets = rf[1].stored
          /\ rf[1].access # 0
          /\ env["OURA_ACCESS_TOKEN"] = rf[1].access
          /\ rf[1].body = "AccessAndRefresh"
               => /\ rf[1].refresh # 0
                  /\ env["OURA_REFRESH_TOKEN"] = rf[1].refresh
          /\ rf[1].body = "AccessOnly"
               => env["OURA_REFRESH_TOKEN"] = rf[1].entry["OURA_REFRESH_TOKEN"]

\* a rotating refresh that returned without a store request, the identity
\* token being unset
C25_Witness ==
  /\ rf[1].state = "returned"
  /\ rf[1].body = "AccessAndRefresh"
  /\ rf[1].entry["REPO_SECRETS_TOKEN"] = Unset
  /\ rf[1].entry["GITHUB_REPOSITORY"] = 2
  /\ StoreRequests(rf[1]) = 0
  /\ env["OURA_REFRESH_TOKEN"] = rf[1].refresh

\* a rotating refresh with the store configured but a repository that is not
\* owner/name: no store request either
C25_MalformedRepository ==
  /\ rf[1].state = "returned"
  /\ rf[1].body = "AccessAndRefresh"
  /\ StoreConfigured(rf[1].entry)
  /\ StoreRequests(rf[1]) = 0

\* C24: in a refresher call that pushes, OURA_ACCESS_TOKEN is pushed first
\* and OURA_REFRESH_TOKEN second; a failed push is the last push of the call,
\* so a failed first push leaves the store as it was; the store holds the
\* rotated refresh token only together with the new access token; and once
\* the call has returned the environment holds the rotated refresh token
\* whatever the store holds.
C24_AccessPushedFirst ==
  rf[1].pushes # <<>>
    => /\ rf[1].pushes \in {<<"OURA_ACCESS_TOKEN">>,
                            <<"OURA_ACCESS_TOKEN", "OURA_REFRESH_TOKEN">>}
       /\ rf[1].failed # <<>>
            => /\ rf[1].failed = <<Last(rf[1].pushes)>>
               /\ rf[1].state = "returned"
       /\ rf[1].failed = <<"OURA_ACCESS_TOKEN">>
            => /\ rf[1].pushes = <<"OURA_ACCESS_TOKEN">>
               /\ secrets = rf[1].stored
       /\ secrets["OURA_REFRESH_TOKEN"] \in
            {rf[1].stored["OURA_REFRESH_TOKEN"], rf[1].refresh}
       /\ secrets["OURA_ACCESS_TOKEN"] \in
            {rf[1].stored["OURA_ACCESS_TOKEN"], rf[1].access}
       /\ secrets["OURA_REFRESH_TOKEN"] = rf[1].refresh
            => secrets["OURA_ACCESS_TOKEN"] = rf[1].access
       /\ rf[1].state = "returned"
            => /\ env["OURA_REFRESH_TOKEN"] = rf[1].refresh
               /\ env["OURA_ACCESS_TOKEN"] = rf[1].access

\* the refresher returned; the store holds the new access token and the old
\* refresh token, the environment the rotated refresh token
C24_Witness ==
  /\ rf[1].state = "returned"
  /\ rf[1].pushes = <<"OURA_ACCESS_TOKEN", "OURA_REFRESH_TOKEN">>
  /\ rf[1].failed = <<"OURA_REFRESH_TOKEN">>
  /\ secrets["OURA_ACCESS_TOKEN"] = rf[1].access
  /\ secrets["OURA_REFRESH_TOKEN"] = rf[1].stored["OURA_REFRESH_TOKEN"]
  /\ env["OURA_REFRESH_TOKEN"] = rf[1].refresh
  /\ env["OURA_REFRESH_TOKEN"] # secrets["OURA_REFRESH_TOKEN"]

\* the refresher returned after a failed first push: the store holds the old
\* access token and the old refresh token
C24_BothOld ==
  /\ rf[1].state = "returned"
  /\ rf[1].failed = <<"OURA_ACCESS_TOKEN">>
  /\ secrets = rf[1].stored
  /\ env["OURA_REFRESH_TOKEN"] = rf[1].refresh
  /\ env["OURA_REFRESH_TOKEN"] # secrets["OURA_REFRESH_TOKEN"]

\* the latest refresher call of the current call failed: it raised (the
\* client) or returned None (the debug variant)
RefreshFailedNow ==
  rf[1].state \in {"raised", "returned None"} /\ rf[1].call = calls

\* C22: a refresher call that was answered with an error status (400..599;
\* any status but 200 in the debug variant) or started with a credential
\* missing has failed, and a refresher call that failed has left the
\* environment and the secret store as they were when it started and has
\* sent nothing to the secret store.
C22_FailedRefreshChangesNothing ==
  /\ (/\ rf[1].call = calls
      /\ rf[1].state # "none"
      /\ \/ rf[1].status >= 400 /\ rf[1].status < 600
         \/ MissingCredential(rf[1].entry)
         \/ /\ cur[1].op = "debug make_api_request"
            /\ rf[1].status \notin {0, 200})
       => RefreshFailedNow
  /\ RefreshFailedNow
       => /\ env = rf[1].entry
          /\ secrets = rf[1].stored
          /\ rf[1].pushes = <<>>
          /\ StoreRequests(rf[1]) = 0
          /\ Posts(cur[1]) <= 2
          /\ Done

\* a refresher call of the client answered 500 with a body full of tokens,
\* the store being configured
C22_Witness ==
  /\ RefreshFailedNow
  /\ cur[1].op \in {"make_api_request", "refresh_access_token"}
  /\ rf[1].status = 500
  /\ rf[1].entry["REPO_SECRETS_TOKEN"] = Configured
  /\ rf[1].entry["GITHUB_REPOSITORY"] = 2
  /\ env = rf[1].entry

\* a refresher call of the debug variant answered 201
C22_DebugFailed ==
  /\ RefreshFailedNow
  /\ cur[1].op = "debug make_api_request"
  /\ rf[1].status = 201
  /\ env = rf[1].entry

\* C23: when the refresher call made after a 401 fails, the call has sent
\* exactly one GET and ends with the refresher's failure: in the client the
\* exception the refresher raised (never the HTTP error of the data
\* endpoint), in the debug variant None.
C23_NoRetryAfterFailedRefresh ==
  (RefreshFailedNow /\ cur[1].statuses # <<>>)
    => /\ Done
       /\ Gets(cur[1]) = 1
       /\ cur[1].statuses = <<401>>
       /\ IF cur[1].op = "debug make_api_request"
            THEN cur[1].result.kind = "None"
            ELSE /\ cur[1].result.kind = rf[1].kind
                 /\ cur[1].result.kind \in
                      {"RuntimeError", "ValueError", "JSONDecodeError", "KeyError"}
                 /\ rf[1].status >= 400 => cur[1].result.val = rf[1].status

\* a get() of the client whose 401 was followed by a refresh answered 400
C23_Witness ==
  /\ Done /\ RefreshFailedNow
  /\ IsGet(cur[1])
  /\ cur[1].statuses = <<401>>
  /\ rf[1].status = 400
  /\ cur[1].result.kind = "RuntimeError"
  /\ Gets(cur[1]) = 1

\* the same in the debug variant: None after one GET
C23_DebugNone ==
  /\ Done /\ RefreshFailedNow
  /\ cur[1].op = "debug make_api_request"
  /\ cur[1].statuses = <<401>>
  /\ rf[1].status = 400
  /\ cur[1].result.kind = "None"
  /\ Gets(cur[1]) = 1

\* the metrics the writer named fn writes
MetricsOf(fn) ==
  CASE fn = "save_nightly_hrv_files" -> {"hrv"}
    [] fn = "save_nightly_rhr_files" -> {"rhr"}
    [] fn = "save_all_sleep_metrics" -> {"hrv", "rhr"}
    [] OTHER -> {}

\* the night has a valid value of the metric: an HRV sample, or a
\* lowest_heart_rate, that is not null and > 0
HasValid(night, metric) ==
  IF metric = "hrv"
    THEN /\ night.hrv # JsonNull
         /\ \E i \in DOMAIN night.hrv[1].items :
              /\ night.hrv[1].items[i] # JsonNull
              /\ night.hrv[1].items[i][1] > 0
    ELSE /\ night.lowest_heart_rate # JsonNull
         /\ night.lowest_heart_rate[1] > 0

\* the file is in fs with the content text
Holds(fs, f, text) == f \in DOMAIN fs /\ fs[f] = text

\* the file is the same, or as absent, in the two directories
SameFile(fs1, fs2, f) ==
  /\ f \in DOMAIN fs1 <=> f \in DOMAIN fs2
  /\ f \in DOMAIN fs1 => fs1[f] = fs2[f]

\* C27: after a call of a writer, (a) every file of files_created is the file
\* of a night of the payload with a valid value, and holds the entries of
\* such a night; (b) every file that is not in files_created is as it was
\* before the call, and no file was removed; (c) the file of a day whose
\* nights have no valid value is as it was before the call; (d) for a night
\* whose day occurs once in the payload, the file is in files_created exactly
\* when the night has a valid value and the file was missing or held other
\* entries, and then it is listed once.
C27_WritesOnlyValidChangedNights ==
  wr.n >= 1 =>
    LET nights == wr.sleep_data.data
        created == {wr.files_created[k] : k \in DOMAIN wr.files_created}
    IN /\ \A f \in created :
            /\ f[2] \in MetricsOf(wr.fn)
            /\ \E i \in DOMAIN nights :
                 /\ nights[i].day = f[1]
                 /\ HasValid(nights[i], f[2])
                 /\ Holds(files, f, json_dump(night_entries(f[2], nights[i])))
       /\ \A f \in (DOMAIN files \cup DOMAIN wr.before) \ created :
            SameFile(files, wr.before, f)
       /\ \A i \in DOMAIN nights : \A metric \in MetricsOf(wr.fn) :
            LET f == <<nights[i].day, metric>>
                entries == night_entries(metric, nights[i])
            IN /\ (\A j \in DOMAIN nights :
                     nights[j].day = nights[i].day => ~HasValid(nights[j], metric))
                    => /\ f \notin created
                       /\ SameFile(files, wr.before, f)
               /\ (\A j \in DOMAIN nights : j # i => nights[j].day # nights[i].day)
                    => /\ f \in created
                            <=> /\ HasValid(nights[i], metric)
                                /\ ~Holds(wr.before, f, json_dump(entries))
                       /\ Count(wr.files_created, f) <= 1

\* a second call on a payload with a night that is all filtered out and a
\* night whose file the first call wrote: nothing is written
C27_Witness ==
  /\ wr.n = 2
  /\ wr.fn = "save_all_sleep_metrics"
  /\ wr.sleep_data.data = <<NightD, NightA>>
  /\ wr.files_created = <<>>
  /\ <<"2025-10-23", "hrv">> \in DOMAIN files
  /\ <<"2025-10-23", "rhr">> \in DOMAIN files
  /\ <<"2025-10-25", "hrv">> \notin DOMAIN files
  /\ <<"2025-10-25", "rhr">> \notin DOMAIN files
  /\ files = wr.before

\* a call that rewrote a file holding another session's entries
C27_Rewritten ==
  /\ wr.n = 1
  /\ wr.sleep_data.data = <<NightB>>
  /\ <<"2025-10-24", "hrv">> \in DOMAIN wr.before
  /\ wr.files_created = <<<<"2025-10-24", "hrv">>>>
  /\ files # wr.before

\* the .json files the call found in the root
FoundFiles == {org.before.root[i] : i \in DOMAIN org.before.root} \cap
              {f \in RootNames : f[Len(f)] = ".json"}

\* C28: a call of organize_files ends without an exception, its three counts
\* sum to the number of .json files found, and every .json file whose name
\* is not YYYY-MM-DD_sleep-hrv.json or YYYY-MM-DD_sleep-rhr.json is counted
\* as skipped and is still in the root.
C28_EveryFileClassified ==
  org.n >= 1
    => /\ org.raised = "no"
       /\ org.moved_count + org.skipped_count + org.already_exists_count = org.found
       /\ org.found = Cardinality(FoundFiles)
       /\ org.skipped_count = Cardinality({f \in FoundFiles : ~WellNamed(f)})
       /\ \A f \in FoundFiles : ~WellNamed(f) => InRoot(disk, f)

\* C28 without the badly named files: when no name raises, the three counts
\* sum to the number of files found
C28_CountsWhenNothingRaises ==
  (org.n >= 1 /\ org.raised = "no")
    => org.moved_count + org.skipped_count + org.already_exists_count = org.found

\* a file with a three-part prefix that is no date is moved, not skipped
C28_NonDateMoved ==
  /\ org.n = 1 /\ ~org.dry_run /\ org.raised = "no"
  /\ org.before.root = <<Name(<<"old", "-", "copy", "-", "1">>, "hrv")>>
  /\ org.moved_count = 1 /\ org.skipped_count = 0
  /\ disk.root = <<>>

====
